---------------------------- MODULE Spec2Model ----------------------------
(***************************************************************************)
(* Blarus: a dense matrix stored in one contiguous buffer, and the views   *)
(* (View, ViewMut) that borrow that buffer.  Every element access goes     *)
(* through Accessor::index, which maps (row, col) to a buffer position.    *)
(*                                                                         *)
(* The model is one client of the library: it constructs a matrix, fills   *)
(* its buffer with 1, 2, .. the way the unit tests do, derives a view,     *)
(* reads and writes through it, and drops it.  The client holds one view   *)
(* at a time, as every test does.  A Rust panic (the slice index of std    *)
(* refusing a position >= len) ends the run: pc = "panicked".              *)
(*                                                                         *)
(* Buffer positions are 0-based as in the source; TLA+ sequences are       *)
(* 1-based, so position id of a buffer is data[id + 1].                    *)
(* usize arithmetic is modelled on the naturals: every bound below keeps   *)
(* the products far from 2^64.                                             *)
(***************************************************************************)
EXTENDS Naturals, Sequences, FiniteSets

VARIABLES
    pc,      \* "start" (no matrix yet), "built", "filled", "panicked"
    matrix,  \* the Matrix<i32>: nb_rows, nb_cols, accessor, data
    live,    \* the live borrow of matrix.data: a View, a ViewMut, or none
    last,    \* the last call of the client with its arguments and outcome
    origin,  \* ghost: the call the live view came from, and its start_row
             \* and start_col
    shadow,  \* ghost: the logical content, position (r, c) -> value
    clean,   \* ghost: every write so far was in bounds of a valid view
    ctor,    \* ghost: the constructor called and its arguments
    nwrites, \* number of writes so far (bounded by MaxWrites)
    held,    \* kinds of the views derived before `live` that are still in
             \* scope (SpecBorrow; the other clients hold one view at a time)
    probe    \* the Accessor exercised on its own (SpecAccessor)

vars == <<pc, matrix, live, last, origin, shadow, clean, ctor, nwrites, held,
          probe>>

----------------------------------------------------------------------------
(* Bounds of the model *)

MaxDim == 3

MaxWrites == 2

MaxStart == 1

MaxStride == 4

MaxLive == 2

\* let new_value: i32 = 17;  the value the tests write through a ViewMut
new_value == 17

\* The client's k-th write (k = 0, 1, ..) stores new_value + k, so that a
\* later write to a position is told from an earlier one
Val(k) == {new_value + k}

Dim == 0 .. MaxDim

\* start_row and start_col of the views the client asks for
Start == 0 .. MaxStart

\* T::default() for the element type of the tests, i32
DefaultValue == 0

----------------------------------------------------------------------------
(* view.rs: Accessor *)

Accessor_new(stride_row, stride_col) ==
    [stride_row |-> stride_row, stride_col |-> stride_col, offset |-> 0]

\* Mutation of Accessor_new_with_offset: the origins not scaled by the strides
Accessor_new_with_offset_unscaled(stride_row, stride_col, offset_row, offset_col) ==
    [stride_row |-> stride_row,
     stride_col |-> stride_col,
     offset     |-> offset_row + offset_col]

\* Mutation of Accessor_new_with_offset: the two origins exchanged
Accessor_new_with_offset_swapped(stride_row, stride_col, offset_row, offset_col) ==
    [stride_row |-> stride_row,
     stride_col |-> stride_col,
     offset     |-> stride_row * offset_col + stride_col * offset_row]

Accessor_new_with_offset(stride_row, stride_col, offset_row, offset_col) ==
    [stride_row |-> stride_row,
     stride_col |-> stride_col,
     offset     |-> stride_row * offset_row + stride_col * offset_col]

\* Mutation of Accessor_index: the two strides exchanged
Accessor_index_swapped(self, row_id, col_id) ==
    row_id * self.stride_col + col_id * self.stride_row + self.offset

Accessor_index(self, row_id, col_id) ==
    row_id * self.stride_row + col_id * self.stride_col + self.offset

----------------------------------------------------------------------------
(* std: <[T] as Index<usize>>::index and index_mut, as the views call them *)

Panic == [fault |-> TRUE, id |-> 0, val |-> 0]

\* data.index(id): the element at position id, or a panic when id >= len
slice_index(data, id) ==
    IF id < Len(data) THEN [fault |-> FALSE, id |-> id, val |-> data[id + 1]]
                      ELSE Panic

\* Mutation of slice_index_mut: a store past the end is dropped silently
slice_index_mut_unchecked(data, id, v) ==
    IF id < Len(data)
        THEN [fault |-> FALSE, data |-> [data EXCEPT ![id + 1] = v]]
        ELSE [fault |-> FALSE, data |-> data]

\* *data.index_mut(id) = v: the buffer after the store, or a panic
slice_index_mut(data, id, v) ==
    IF id < Len(data)
        THEN [fault |-> FALSE, data |-> [data EXCEPT ![id + 1] = v]]
        ELSE [fault |-> TRUE, data |-> data]

----------------------------------------------------------------------------
(* view.rs: View and ViewMut.  The data field of a view is the borrow of   *)
(* the matrix's buffer, so the operators below take the buffer itself.     *)

NoView == [kind |-> "none", nb_rows |-> 0, nb_cols |-> 0,
           accessor |-> Accessor_new(0, 0)]

View_new(nb_rows, nb_cols, accessor) ==
    [kind |-> "View", nb_rows |-> nb_rows, nb_cols |-> nb_cols,
     accessor |-> accessor]

ViewMut_new(nb_rows, nb_cols, accessor) ==
    [kind |-> "ViewMut", nb_rows |-> nb_rows, nb_cols |-> nb_cols,
     accessor |-> accessor]

\* view[(row, col)], for View and ViewMut alike
View_index(self, data, row, col) ==
    LET id == Accessor_index(self.accessor, row, col)
    IN  slice_index(data, id)

\* Mutation of ViewMut_index_mut: the offset of the accessor left out
ViewMut_index_mut_no_offset(self, data, row, col, v) ==
    LET id == row * self.accessor.stride_row + col * self.accessor.stride_col
    IN  slice_index_mut(data, id, v)

\* view_mut[(row, col)] = v
ViewMut_index_mut(self, data, row, col, v) ==
    LET id == Accessor_index(self.accessor, row, col)
    IN  slice_index_mut(data, id, v)

----------------------------------------------------------------------------
(* matrix.rs: Matrix *)

NoMatrix == [nb_rows |-> 0, nb_cols |-> 0, accessor |-> Accessor_new(0, 0),
             data |-> <<>>]

\* Mutation of resize_with_default: one element too many
resize_with_default_plus_one(n) == [i \in 1 .. n + 1 |-> DefaultValue]

\* Vec::new() followed by resize_with(n, Default::default)
resize_with_default(n) == [i \in 1 .. n |-> DefaultValue]

\* Mutation of new_row_major: nb_rows * nb_rows elements allocated
new_row_major_square(nb_rows, nb_cols) ==
    [nb_rows  |-> nb_rows,
     nb_cols  |-> nb_cols,
     accessor |-> Accessor_new(nb_cols, 1),
     data     |-> [i \in 1 .. nb_rows * nb_rows |-> DefaultValue]]

\* Mutation of new_row_major: the row stride is nb_rows
new_row_major_stride_rows(nb_rows, nb_cols) ==
    [nb_rows  |-> nb_rows,
     nb_cols  |-> nb_cols,
     accessor |-> Accessor_new(nb_rows, 1),
     data     |-> resize_with_default(nb_rows * nb_cols)]

new_row_major(nb_rows, nb_cols) ==
    [nb_rows  |-> nb_rows,
     nb_cols  |-> nb_cols,
     accessor |-> Accessor_new(nb_cols, 1),
     data     |-> resize_with_default(nb_rows * nb_cols)]

\* Mutation of new_column_major: the column stride is nb_cols
new_column_major_stride_cols(nb_rows, nb_cols) ==
    [nb_rows  |-> nb_rows,
     nb_cols  |-> nb_cols,
     accessor |-> Accessor_new(1, nb_cols),
     data     |-> [i \in 1 .. nb_rows * nb_cols |-> DefaultValue]]

new_column_major(nb_rows, nb_cols) ==
    [nb_rows  |-> nb_rows,
     nb_cols  |-> nb_cols,
     accessor |-> Accessor_new(1, nb_rows),
     data     |-> resize_with_default(nb_rows * nb_cols)]

ViewParameters_new(start_row, start_col, nb_rows, nb_cols) ==
    [start_row |-> start_row, start_col |-> start_col,
     nb_rows |-> nb_rows, nb_cols |-> nb_cols]

\* Mutation of full_view: nb_rows and nb_cols exchanged
full_view_transposed(self) ==
    View_new(self.nb_cols, self.nb_rows, self.accessor)

full_view(self) ==
    View_new(self.nb_rows, self.nb_cols, self.accessor)

full_view_mut(self) ==
    ViewMut_new(self.nb_rows, self.nb_cols, self.accessor)

\* Mutation of view: start_row and start_col exchanged
view_swapped_start(self, params) ==
    View_new(params.nb_rows, params.nb_cols,
             Accessor_new_with_offset(self.accessor.stride_row,
                                      self.accessor.stride_col,
                                      params.start_col, params.start_row))

view(self, params) ==
    View_new(params.nb_rows, params.nb_cols,
             Accessor_new_with_offset(self.accessor.stride_row,
                                      self.accessor.stride_col,
                                      params.start_row, params.start_col))

\* Mutation of view_mut: the start of the rectangle ignored
view_mut_no_start(self, params) ==
    ViewMut_new(params.nb_rows, params.nb_cols,
                Accessor_new(self.accessor.stride_row,
                             self.accessor.stride_col))

view_mut(self, params) ==
    ViewMut_new(params.nb_rows, params.nb_cols,
                Accessor_new_with_offset(self.accessor.stride_row,
                                         self.accessor.stride_col,
                                         params.start_row, params.start_col))

\* The buffer the unit tests install: data_ref = vec![1, 2, ..., len]
data_ref(n) == [i \in 1 .. n |-> i]

----------------------------------------------------------------------------
(* Ghost state *)

\* The logical content of a matrix with every element equal to v
Logical(nb_rows, nb_cols, v) ==
    [p \in (0 .. nb_rows - 1) \X (0 .. nb_cols - 1) |-> v]

\* The precondition of view / view_mut stated by the specification
ValidParams(self, params) ==
    /\ params.start_row + params.nb_rows <= self.nb_rows
    /\ params.start_col + params.nb_cols <= self.nb_cols

NoCall == [op |-> "none"]

NoProbe == [call |-> "none"]


NoOrigin == [via |-> "none", start_row |-> 0, start_col |-> 0]

Origin(via, start_row, start_col) ==
    [via |-> via, start_row |-> start_row, start_col |-> start_col]

NoCtor == [order |-> "none", nb_rows |-> 0, nb_cols |-> 0]

\* What full_view() of the matrix reads at every logical position
Content(self) ==
    [p \in (0 .. self.nb_rows - 1) \X (0 .. self.nb_cols - 1) |->
        View_index(full_view(self), self.data, p[1], p[2]).val]

\* The live view was derived within the matrix (full views always are)
ValidLive ==
    /\ origin.start_row + live.nb_rows <= matrix.nb_rows
    /\ origin.start_col + live.nb_cols <= matrix.nb_cols

InBounds(v, row, col) == row < v.nb_rows /\ col < v.nb_cols

\* The values the client has just stored at (row, col): the one of the
\* write that immediately precedes a read of the same position, if any
JustWrote(row, col) ==
    IF last.op = "index_mut" /\ ~last.fault /\ last.row = row /\ last.col = col
        THEN {last.v}
        ELSE {}

----------------------------------------------------------------------------
(* The client *)

Init ==
    /\ pc = "start"
    /\ matrix = NoMatrix
    /\ live = NoView
    /\ last = NoCall
    /\ origin = NoOrigin
    /\ shadow = <<>>
    /\ clean = TRUE
    /\ ctor = NoCtor
    /\ nwrites = 0
    /\ held = <<>>
    /\ probe = NoProbe

\* let matrix: Matrix<i32> = Matrix::new_row_major(nb_rows, nb_cols);
DoNewRowMajor ==
    /\ pc = "start"
    /\ \E nb_rows \in Dim, nb_cols \in Dim :
          /\ matrix' = new_row_major(nb_rows, nb_cols)
          /\ ctor' = [order |-> "RowMajor", nb_rows |-> nb_rows,
                                            nb_cols |-> nb_cols]
          /\ last' = [op |-> "new_row_major"]
          /\ shadow' = Logical(nb_rows, nb_cols, DefaultValue)
    /\ pc' = "built"
    /\ UNCHANGED <<live, origin, clean, nwrites, held, probe>>

\* let matrix: Matrix<i32> = Matrix::new_column_major(nb_rows, nb_cols);
DoNewColumnMajor ==
    /\ pc = "start"
    /\ \E nb_rows \in Dim, nb_cols \in Dim :
          /\ matrix' = new_column_major(nb_rows, nb_cols)
          /\ ctor' = [order |-> "ColumnMajor", nb_rows |-> nb_rows,
                                               nb_cols |-> nb_cols]
          /\ last' = [op |-> "new_column_major"]
          /\ shadow' = Logical(nb_rows, nb_cols, DefaultValue)
    /\ pc' = "built"
    /\ UNCHANGED <<live, origin, clean, nwrites, held, probe>>

\* matrix.data = data_ref.clone();  (the tests, right after construction)
DoFill ==
    /\ pc = "built"
    /\ matrix' = [matrix EXCEPT !.data = data_ref(Len(matrix.data))]
    /\ shadow' = Content(matrix')
    /\ last' = [op |-> "fill"]
    /\ pc' = "filled"
    /\ UNCHANGED <<live, origin, clean, ctor, nwrites, held, probe>>

\* let view: View<i32> = matrix.full_view();
DoFullView ==
    /\ pc = "filled"
    /\ live.kind = "none"
    /\ live' = full_view(matrix)
    /\ origin' = Origin("full_view", 0, 0)
    /\ last' = [op |-> "full_view"]
    /\ UNCHANGED <<pc, matrix, shadow, clean, ctor, nwrites, held, probe>>

\* let mut view_mut: ViewMut<i32> = matrix.full_view_mut();
DoFullViewMut ==
    /\ pc = "filled"
    /\ live.kind = "none"
    /\ live' = full_view_mut(matrix)
    /\ origin' = Origin("full_view_mut", 0, 0)
    /\ last' = [op |-> "full_view_mut"]
    /\ UNCHANGED <<pc, matrix, shadow, clean, ctor, nwrites, held, probe>>

\* let view: View<i32> = matrix.view(ViewParameters::new(..));
DoView ==
    /\ pc = "filled"
    /\ live.kind = "none"
    /\ \E start_row \in Start, start_col \in Start, nb_rows \in Dim, nb_cols \in Dim :
          LET params == ViewParameters_new(start_row, start_col, nb_rows, nb_cols)
          IN  /\ live' = view(matrix, params)
              /\ origin' = Origin("view", start_row, start_col)
              /\ last' = [op |-> "view", params |-> params]
    /\ UNCHANGED <<pc, matrix, shadow, clean, ctor, nwrites, held, probe>>

\* let mut view_mut: ViewMut<i32> = matrix.view_mut(ViewParameters::new(..));
DoViewMut ==
    /\ pc = "filled"
    /\ live.kind = "none"
    /\ \E start_row \in Start, start_col \in Start, nb_rows \in Dim, nb_cols \in Dim :
          LET params == ViewParameters_new(start_row, start_col, nb_rows, nb_cols)
          IN  /\ live' = view_mut(matrix, params)
              /\ origin' = Origin("view_mut", start_row, start_col)
              /\ last' = [op |-> "view_mut", params |-> params]
    /\ UNCHANGED <<pc, matrix, shadow, clean, ctor, nwrites, held, probe>>

\* let x = view[(row, col)];  on a View or a ViewMut
DoIndex ==
    /\ pc = "filled"
    /\ live.kind \in {"View", "ViewMut"}
    /\ \E row \in Dim, col \in Dim :
          LET r == View_index(live, matrix.data, row, col)
          IN  /\ last' = [op |-> "index", row |-> row, col |-> col,
                          fault |-> r.fault, id |-> r.id, val |-> r.val,
                          wrote |-> JustWrote(row, col)]
              /\ pc' = IF r.fault THEN "panicked" ELSE "filled"
    /\ UNCHANGED <<matrix, live, origin, shadow, clean, ctor, nwrites, held, probe>>

\* view_mut[(row, col)] = v;
DoIndexMut ==
    /\ pc = "filled"
    /\ live.kind = "ViewMut"
    /\ nwrites < MaxWrites
    /\ \E row \in Dim, col \in Dim, v \in Val(nwrites) :
          LET r == ViewMut_index_mut(live, matrix.data, row, col, v)
              expected == clean /\ ValidLive /\ InBounds(live, row, col)
          IN  /\ last' = [op |-> "index_mut", row |-> row, col |-> col,
                          v |-> v, fault |-> r.fault]
              /\ pc' = IF r.fault THEN "panicked" ELSE "filled"
              /\ matrix' = [matrix EXCEPT !.data = r.data]
              /\ nwrites' = IF r.fault THEN nwrites ELSE nwrites + 1
              /\ clean' = IF r.fault THEN clean ELSE expected
              /\ shadow' = IF r.fault THEN shadow
                           ELSE IF expected
                           THEN [shadow EXCEPT ![<<origin.start_row + row,
                                                   origin.start_col + col>>] = v]
                           ELSE <<>>
    /\ UNCHANGED <<live, origin, ctor, held, probe>>

\* the end of the scope of the view
DoDrop ==
    /\ pc = "filled"
    /\ live.kind \in {"View", "ViewMut"}
    /\ live' = NoView
    /\ origin' = NoOrigin
    /\ last' = [op |-> "drop"]
    /\ UNCHANGED <<pc, matrix, shadow, clean, ctor, nwrites, held, probe>>

Next ==
    \/ DoNewRowMajor
    \/ DoNewColumnMajor
    \/ DoFill
    \/ DoFullView
    \/ DoFullViewMut
    \/ DoView
    \/ DoViewMut
    \/ DoIndex
    \/ DoIndexMut
    \/ DoDrop

Spec == Init /\ [][Next]_vars

\* The client that only reads: the buffer keeps the tests' pattern 1, 2, ..
NextRead ==
    \/ DoNewRowMajor
    \/ DoNewColumnMajor
    \/ DoFill
    \/ DoFullView
    \/ DoFullViewMut
    \/ DoView
    \/ DoViewMut
    \/ DoIndex
    \/ DoDrop

SpecRead == Init /\ [][NextRead]_vars

----------------------------------------------------------------------------
(* The client that holds several views at once.  full_view and view take   *)
(* `&'a self` and return a View<'a, T>; full_view_mut and view_mut take    *)
(* `&'a mut self` and return a ViewMut<'a, T>: while the returned view is  *)
(* in scope the matrix stays borrowed, shared or exclusive, and rustc      *)
(* refuses (E0499, E0502) a derivation that conflicts with a live borrow.  *)

\* The kinds of the views in scope
LiveKinds == (IF live.kind = "none" THEN <<>> ELSE <<live.kind>>) \o held

\* Mutation of Borrowable: view_mut and full_view_mut declared with `&'a self`
Borrowable_all_shared(kind, lives) == TRUE

\* Whether a borrow for a view of this kind is accepted while the views
\* `lives` are in scope: `&self` next to shared borrows only, `&mut self`
\* next to none
Borrowable(kind, lives) ==
    IF kind = "View"
        THEN \A i \in DOMAIN lives : lives[i] = "View"
        ELSE lives = <<>>

\* The derivation `made`, named op, is attempted with the live views in scope
Try(op, via, made, start_row, start_col) ==
    /\ pc = "filled"
    /\ Len(LiveKinds) < MaxLive
    /\ IF Borrowable(made.kind, LiveKinds)
          THEN /\ live' = made
               /\ held' = LiveKinds
               /\ origin' = Origin(via, start_row, start_col)
               /\ last' = [op |-> op, rejected |-> FALSE]
          ELSE /\ last' = [op |-> op, rejected |-> TRUE]
               /\ UNCHANGED <<live, held, origin>>
    /\ UNCHANGED <<pc, matrix, shadow, clean, ctor, nwrites, probe>>

TryFullView ==
    Try("full_view", "full_view", full_view(matrix), 0, 0)

TryFullViewMut ==
    Try("full_view_mut", "full_view_mut", full_view_mut(matrix), 0, 0)

TryView ==
    \E start_row \in Start, start_col \in Start, nb_rows \in Dim, nb_cols \in Dim :
       Try("view", "view",
           view(matrix, ViewParameters_new(start_row, start_col, nb_rows, nb_cols)),
           start_row, start_col)

TryViewMut ==
    \E start_row \in Start, start_col \in Start, nb_rows \in Dim, nb_cols \in Dim :
       Try("view_mut", "view_mut",
           view_mut(matrix, ViewParameters_new(start_row, start_col, nb_rows, nb_cols)),
           start_row, start_col)

\* the end of the block that holds the views
DoDropAll ==
    /\ pc = "filled"
    /\ live.kind \in {"View", "ViewMut"}
    /\ live' = NoView
    /\ held' = <<>>
    /\ origin' = NoOrigin
    /\ last' = [op |-> "drop"]
    /\ UNCHANGED <<pc, matrix, shadow, clean, ctor, nwrites, probe>>

NextBorrow ==
    \/ DoNewRowMajor
    \/ DoNewColumnMajor
    \/ DoFill
    \/ TryFullView
    \/ TryFullViewMut
    \/ TryView
    \/ TryViewMut
    \/ DoDropAll

SpecBorrow == Init /\ [][NextBorrow]_vars

----------------------------------------------------------------------------
(* The Accessor on its own, as test_accessor_index and                     *)
(* test_accessor_index_with_offset use it                                  *)

Small == 0 .. MaxStride

\* Accessor::new(sr, sc).index(r, c)
DoAccessorNew ==
    /\ probe.call = "none"
    /\ \E sr \in Small, sc \in Small, r \in Small, c \in Small :
          LET accessor == Accessor_new(sr, sc)
          IN  probe' = [call |-> "new", sr |-> sr, sc |-> sc,
                        orow |-> 0, ocol |-> 0, r |-> r, c |-> c,
                        accessor |-> accessor,
                        result |-> Accessor_index(accessor, r, c)]
    /\ UNCHANGED <<pc, matrix, live, last, origin, shadow, clean, ctor, nwrites,
                   held>>

\* Accessor::new_with_offset(sr, sc, orow, ocol).index(r, c)
DoAccessorNewWithOffset ==
    /\ probe.call = "none"
    /\ \E sr \in Small, sc \in Small, orow \in Small, ocol \in Small,
          r \in Small, c \in Small :
          LET accessor == Accessor_new_with_offset(sr, sc, orow, ocol)
          IN  probe' = [call |-> "new_with_offset", sr |-> sr, sc |-> sc,
                        orow |-> orow, ocol |-> ocol, r |-> r, c |-> c,
                        accessor |-> accessor,
                        result |-> Accessor_index(accessor, r, c)]
    /\ UNCHANGED <<pc, matrix, live, last, origin, shadow, clean, ctor, nwrites,
                   held>>

NextAccessor ==
    \/ DoAccessorNew
    \/ DoAccessorNewWithOffset

SpecAccessor == Init /\ [][NextAccessor]_vars

----------------------------------------------------------------------------
(* Claims *)

\* The position of logical element (r, c) in the buffer of an R x C matrix
SlotOf(order, R, C, r, c) ==
    IF order = "RowMajor" THEN r * C + c ELSE c * R + r

\* C1: Accessor::new(sr, sc).index(r, c) = r*sr + c*sc, and
\* Accessor::new_with_offset(sr, sc, or, oc).index(r, c)
\*   = r*sr + c*sc + (sr*or + sc*oc), for all strides, origins and indices.
AccessorIndexFormula ==
    /\ probe.call = "new" =>
          probe.result = probe.r * probe.sr + probe.c * probe.sc
    /\ probe.call = "new_with_offset" =>
          probe.result = probe.r * probe.sr + probe.c * probe.sc
                         + (probe.sr * probe.orow + probe.sc * probe.ocol)

\* test_accessor_index_with_offset: new_with_offset(4, 1, 1, 1).index(1, 2)
\* is stride_row + 7
AccessorIndexWitness ==
    /\ probe.call = "new_with_offset"
    /\ probe.sr = 4 /\ probe.sc = 1 /\ probe.orow = 1 /\ probe.ocol = 1
    /\ probe.r = 1 /\ probe.c = 2
    /\ probe.result = 11

\* The last call was an element access (a read or a write) through the view
Accessed == last.op \in {"index", "index_mut"}

\* C2: through full_view(), (r, c) with r < R and c < C reads buffer slot
\* r*C + c of a matrix built by new_row_major(R, C), and slot c*R + r of one
\* built by new_column_major(R, C).
FullViewReadsLayoutSlot ==
    (/\ last.op = "index"
     /\ origin.via = "full_view"
     /\ last.row < ctor.nb_rows
     /\ last.col < ctor.nb_cols)
    => /\ ~last.fault
       /\ ctor.order = "RowMajor" =>
             /\ last.id = last.row * ctor.nb_cols + last.col
             /\ last.val = matrix.data[last.row * ctor.nb_cols + last.col + 1]
       /\ ctor.order = "ColumnMajor" =>
             /\ last.id = last.col * ctor.nb_rows + last.row
             /\ last.val = matrix.data[last.col * ctor.nb_rows + last.row + 1]

\* A 3 x 2 column-major matrix filled 1..6: (2, 1) is slot 1*3 + 2 = 5
FullViewReadsLayoutSlotWitness ==
    /\ ctor = [order |-> "ColumnMajor", nb_rows |-> 3, nb_cols |-> 2]
    /\ origin.via = "full_view"
    /\ last.op = "index" /\ last.row = 2 /\ last.col = 1
    /\ ~last.fault /\ last.id = 5 /\ last.val = 6

\* view(1, 1, 2, 2) of the 4 x 4 row-major matrix filled 1..16, read at
\* (0, 0), (0, 1), (1, 0), (1, 1)
Example4x4 ==
    LET m == [new_row_major(4, 4) EXCEPT !.data = data_ref(16)]
        v == view(m, ViewParameters_new(1, 1, 2, 2))
    IN  <<View_index(v, m.data, 0, 0).val, View_index(v, m.data, 0, 1).val,
          View_index(v, m.data, 1, 0).val, View_index(v, m.data, 1, 1).val>>

\* C3: a View from view(start_row, start_col, n, m) with start_row + n <=
\* nb_rows and start_col + m <= nb_cols reads at (i, j), i < n, j < m, the
\* element the matrix holds at (start_row + i, start_col + j); view(1,1,2,2)
\* of the 4 x 4 row-major matrix filled 1..16 yields [[6, 7], [10, 11]].
SubViewReadsSourceElement ==
    /\ (/\ last.op = "index"
        /\ origin.via = "view"
        /\ ValidLive
        /\ InBounds(live, last.row, last.col))
       => LET slot == SlotOf(ctor.order, ctor.nb_rows, ctor.nb_cols,
                             origin.start_row + last.row,
                             origin.start_col + last.col)
          IN  /\ ~last.fault
              /\ last.id = slot
              /\ last.val = matrix.data[slot + 1]
              /\ last.val = Content(matrix)[<<origin.start_row + last.row,
                                             origin.start_col + last.col>>]
    /\ Example4x4 = <<6, 7, 10, 11>>

\* view(1, 1, 2, 2) of a 3 x 3 column-major matrix filled 1..9: (0, 1) is
\* the source's (1, 2), slot 2*3 + 1 = 7
SubViewReadsSourceElementWitness ==
    /\ ctor = [order |-> "ColumnMajor", nb_rows |-> 3, nb_cols |-> 3]
    /\ origin = Origin("view", 1, 1)
    /\ live.nb_rows = 2 /\ live.nb_cols = 2
    /\ last.op = "index" /\ last.row = 0 /\ last.col = 1
    /\ ~last.fault /\ last.id = 7 /\ last.val = 8

\* C4: after in-bounds writes through a ViewMut from view_mut(start_row,
\* start_col, n, m) or full_view_mut, the matrix read through full_view()
\* shows at each written (start_row + i, start_col + j) the last value
\* written there and the original value everywhere else (shadow is exactly
\* that content: a write changes it at one position).
WritesShowThroughFullView ==
    clean =>
       /\ pc \in {"filled", "panicked"} => Content(matrix) = shadow
       /\ (/\ last.op = "index"
           /\ origin.via = "full_view"
           /\ InBounds(live, last.row, last.col))
          => /\ ~last.fault
             /\ last.val = shadow[<<last.row, last.col>>]

\* Two writes went through a ViewMut, it was dropped, and full_view() reads
\* the second value at a position off the first row and column while the
\* first value is still in the buffer
WritesShowThroughFullViewWitness ==
    /\ clean
    /\ nwrites = 2
    /\ origin.via = "full_view"
    /\ last.op = "index" /\ ~last.fault
    /\ last.row >= 1 /\ last.col >= 1
    /\ last.val = new_value + 1
    /\ \E i \in DOMAIN matrix.data : matrix.data[i] = new_value
    /\ \E i \in DOMAIN matrix.data : matrix.data[i] = i

\* C5: writing v at (r, c) through a ViewMut and immediately reading (r, c)
\* through the same ViewMut returns v, with or without an offset.
WriteThenReadReturnsValue ==
    /\ (last.op = "index_mut" /\ ~last.fault)
       => View_index(live, matrix.data, last.row, last.col).val = last.v
    /\ (last.op = "index" /\ last.wrote # {})
       => /\ ~last.fault
          /\ last.wrote = {last.val}

\* A read of (1, 0) right after the write of (1, 0), through a ViewMut whose
\* accessor has a nonzero offset
WriteThenReadReturnsValueWitness ==
    /\ live.kind = "ViewMut"
    /\ live.accessor.offset > 0
    /\ last.op = "index" /\ last.row = 1 /\ last.col = 0
    /\ last.wrote = {new_value}
    /\ last.val = new_value

\* C6: every read or write at (row, col) with row >= nb_rows or
\* col >= nb_cols of the view faults.
OutOfBoundsAccessFaults ==
    (Accessed /\ ~InBounds(live, last.row, last.col)) => last.fault

\* C7: view / view_mut with start_row + nb_rows > matrix.nb_rows or
\* start_col + nb_cols > matrix.nb_cols produce no View / ViewMut.
InvalidViewRequestRejected ==
    (/\ last.op \in {"view", "view_mut"}
     /\ ~ValidParams(matrix, last.params))
    => live.kind = "none"

\* C8: the buffer always has nb_rows * nb_cols elements and the dimensions
\* are the constructor's arguments; right after construction every element
\* is the default value.
BufferMatchesDimensions ==
    pc # "start" =>
       /\ Len(matrix.data) = matrix.nb_rows * matrix.nb_cols
       /\ matrix.nb_rows = ctor.nb_rows
       /\ matrix.nb_cols = ctor.nb_cols
       /\ pc = "built" =>
             \A i \in DOMAIN matrix.data : matrix.data[i] = DefaultValue

\* A 3 x 2 matrix after a write through a ViewMut
BufferMatchesDimensionsWitness ==
    /\ ctor.nb_rows = 3 /\ ctor.nb_cols = 2
    /\ last.op = "index_mut" /\ ~last.fault
    /\ Len(matrix.data) = 6

\* C9: a matrix with zero rows or zero columns has an empty buffer, and
\* every read or write through its full_view() / full_view_mut() faults.
EmptyMatrixRejectsAccess ==
    (pc # "start" /\ (ctor.nb_rows = 0 \/ ctor.nb_cols = 0)) =>
       /\ Len(matrix.data) = 0
       /\ (Accessed /\ origin.via \in {"full_view", "full_view_mut"})
          => last.fault
       /\ origin.via \in {"full_view", "full_view_mut"}
          => \A row \in Dim, col \in Dim :
                /\ View_index(live, matrix.data, row, col).fault
                /\ ViewMut_index_mut(live, matrix.data, row, col, new_value).fault

\* A write at (0, 0) through full_view_mut() of a 3 x 0 matrix has faulted
EmptyMatrixRejectsAccessWitness ==
    /\ ctor.nb_rows = 3 /\ ctor.nb_cols = 0
    /\ origin.via = "full_view_mut"
    /\ last.op = "index_mut" /\ last.row = 0 /\ last.col = 0
    /\ last.fault
    /\ pc = "panicked"

\* C10: for a view from full_view, full_view_mut, or view / view_mut with
\* start_row + nb_rows <= matrix.nb_rows and start_col + nb_cols <=
\* matrix.nb_cols, accessor.index(row, col) < len of the buffer for every
\* row < view.nb_rows and col < view.nb_cols: no in-bounds access faults.
InBoundsIndexIsValid ==
    (live.kind # "none" /\ ValidLive) =>
       /\ \A row \in 0 .. live.nb_rows - 1, col \in 0 .. live.nb_cols - 1 :
             Accessor_index(live.accessor, row, col) < Len(matrix.data)
       /\ (Accessed /\ InBounds(live, last.row, last.col)) => ~last.fault

\* The last element of view_mut(1, 1, 2, 2) of a 3 x 3 matrix was written:
\* position 8 of a buffer of 9
InBoundsIndexIsValidWitness ==
    /\ Len(matrix.data) = 9
    /\ origin = Origin("view_mut", 1, 1)
    /\ live.nb_rows = 2 /\ live.nb_cols = 2
    /\ last.op = "index_mut" /\ last.row = 1 /\ last.col = 1
    /\ ~last.fault
    /\ matrix.data[9] = last.v

\* C11: full_view() and full_view_mut() return a view with the matrix's
\* dimensions and the matrix's own accessor (offset 0), so that every
\* in-bounds (r, c) reads the matrix element at (r, c), exactly as
\* view(0, 0, nb_rows, nb_cols) does.
FullViewIsWholeMatrix ==
    origin.via \in {"full_view", "full_view_mut"} =>
       LET whole == view(matrix, ViewParameters_new(0, 0, matrix.nb_rows,
                                                    matrix.nb_cols))
       IN  /\ live.nb_rows = ctor.nb_rows
           /\ live.nb_cols = ctor.nb_cols
           /\ live.accessor = matrix.accessor
           /\ live.accessor.offset = 0
           /\ live.kind = (IF origin.via = "full_view" THEN "View" ELSE "ViewMut")
           /\ live.nb_rows = whole.nb_rows /\ live.nb_cols = whole.nb_cols
           /\ \A r \in 0 .. ctor.nb_rows - 1, c \in 0 .. ctor.nb_cols - 1 :
                 LET here == View_index(live, matrix.data, r, c)
                 IN  /\ ~here.fault
                     /\ here = View_index(whole, matrix.data, r, c)
                     /\ here.id = SlotOf(ctor.order, ctor.nb_rows,
                                         ctor.nb_cols, r, c)
           /\ (last.op = "index" /\ InBounds(live, last.row, last.col))
              => last.val = View_index(whole, matrix.data,
                                       last.row, last.col).val

\* test_matrix_dimensions_access: full_view() of a 3 x 2 row-major matrix
\* has 3 rows and 2 columns; its element (2, 1) was read
FullViewIsWholeMatrixWitness ==
    /\ ctor = [order |-> "RowMajor", nb_rows |-> 3, nb_cols |-> 2]
    /\ origin.via = "full_view"
    /\ live.nb_rows = 3 /\ live.nb_cols = 2
    /\ last.op = "index" /\ last.row = 2 /\ last.col = 1
    /\ last.val = 6

\* C12: while a ViewMut is live no other View or ViewMut of the buffer is
\* live: deriving a ViewMut while any view is live, or a View while a
\* ViewMut is live, is rejected at the derivation.
ViewMutIsExclusive ==
    /\ (\E i \in DOMAIN LiveKinds : LiveKinds[i] = "ViewMut")
       => Len(LiveKinds) = 1
    /\ (last.op \in {"full_view_mut", "view_mut"} /\ ~last.rejected)
       => LiveKinds = <<"ViewMut">>
    /\ (last.op \in {"full_view", "view"} /\ ~last.rejected)
       => /\ LiveKinds # <<>>
          /\ \A i \in DOMAIN LiveKinds : LiveKinds[i] = "View"
    /\ (last.op \in {"full_view_mut", "view_mut"} /\ last.rejected)
       => LiveKinds # <<>>
    /\ (last.op \in {"full_view", "view"} /\ last.rejected)
       => LiveKinds = <<"ViewMut">>

\* view_mut was refused while a View was live, and the View is still there
ViewMutIsExclusiveWitness ==
    /\ last = [op |-> "view_mut", rejected |-> TRUE]
    /\ live.kind = "View"
    /\ origin.via = "view"
    /\ held = <<>>

\* The access recorded in `last` computed an offset past the end of the buffer
OffsetOutOfRange ==
    /\ Accessed
    /\ Accessor_index(live.accessor, last.row, last.col) >= Len(matrix.data)

\* C13: a read or a write whose computed offset accessor.index(row, col) is
\* at least the length of the buffer faults, and the faulting access leaves
\* the buffer, the dimensions and the accessor as they were.
OutOfRangeAccessFaults ==
    /\ [](OffsetOutOfRange => (last.fault /\ pc = "panicked"))
    /\ [](pc = "panicked" => (OffsetOutOfRange /\ last.fault))
    /\ [][pc' = "panicked" =>
            /\ matrix' = matrix
            /\ live' = live
            /\ Len(matrix'.data) = matrix'.nb_rows * matrix'.nb_cols]_vars

\* view_mut(1, 1, 3, 3) of a 3 x 3 matrix: the write at (2, 2) computes offset
\* 12 of a buffer of 9, faults, and the buffer still holds 1..9
OutOfRangeAccessFaultsWitness ==
    /\ pc = "panicked"
    /\ ctor = [order |-> "RowMajor", nb_rows |-> 3, nb_cols |-> 3]
    /\ origin = Origin("view_mut", 1, 1)
    /\ last.op = "index_mut" /\ last.row = 2 /\ last.col = 2 /\ last.fault
    /\ Accessor_index(live.accessor, 2, 2) = 12
    /\ matrix.data = data_ref(9)

\* The step derives a view
Derives == live.kind = "none" /\ live'.kind # "none"

\* The step reads or writes through the live view
Accesses == last' # last /\ last'.op \in {"index", "index_mut"}

\* C14: deriving a view changes nothing in the matrix; the view has the
\* matrix's strides, offset stride_row * start_row + stride_col * start_col
\* and the requested dimensions; no later read or write changes the view's
\* dimensions or accessor.
DerivationFrame ==
    /\ [](live.kind # "none" =>
            /\ live.accessor.stride_row = matrix.accessor.stride_row
            /\ live.accessor.stride_col = matrix.accessor.stride_col
            /\ live.accessor.offset =
                  matrix.accessor.stride_row * origin.start_row
                + matrix.accessor.stride_col * origin.start_col
            /\ origin.via \in {"full_view", "full_view_mut"} =>
                  /\ live.nb_rows = matrix.nb_rows
                  /\ live.nb_cols = matrix.nb_cols
                  /\ origin.start_row = 0 /\ origin.start_col = 0)
    /\ [](last.op \in {"view", "view_mut"} =>
            /\ live.nb_rows = last.params.nb_rows
            /\ live.nb_cols = last.params.nb_cols
            /\ origin.start_row = last.params.start_row
            /\ origin.start_col = last.params.start_col)
    /\ [][Derives => matrix' = matrix]_vars
    /\ [][Accesses => (live' = live /\ origin' = origin)]_vars
    /\ [][(live.kind # "none" /\ live'.kind # "none") => live' = live]_vars

\* view_mut(1, 1, 2, 1) of a column-major 3 x 2 matrix has strides (1, 3) and
\* offset 4, and still has them after a write at (1, 0)
DerivationFrameWitness ==
    /\ ctor = [order |-> "ColumnMajor", nb_rows |-> 3, nb_cols |-> 2]
    /\ origin = Origin("view_mut", 1, 1)
    /\ live = ViewMut_new(2, 1, [stride_row |-> 1, stride_col |-> 3, offset |-> 4])
    /\ last.op = "index_mut" /\ last.row = 1 /\ last.col = 0 /\ ~last.fault
    /\ matrix.data[6] = last.v

\* The in-bounds positions of a matrix or a view
Positions(v) == (0 .. v.nb_rows - 1) \X (0 .. v.nb_cols - 1)

\* The buffer slot of a position
Slot(v, p) == Accessor_index(v.accessor, p[1], p[2])

\* Distinct in-bounds positions have distinct slots
Injective(v) ==
    \A p \in Positions(v), q \in Positions(v) : Slot(v, p) = Slot(v, q) => p = q

\* The step is a successful write at an in-bounds position of a view that
\* lies within the matrix
WritesInBounds ==
    /\ last' # last
    /\ last'.op = "index_mut" /\ ~last'.fault
    /\ InBounds(live, last'.row, last'.col)
    /\ ValidLive

\* C15: the index mapping of a matrix is a bijection from its in-bounds
\* positions onto the slots 0 .. R*C - 1; distinct in-bounds positions of a
\* view that lies within the matrix never share a slot, so a write at one of
\* them changes the value read at no other.
IndexMappingIsBijection ==
    /\ [](pc # "start" =>
            /\ Injective(matrix)
            /\ {Slot(matrix, p) : p \in Positions(matrix)}
                  = 0 .. matrix.nb_rows * matrix.nb_cols - 1
            /\ Len(matrix.data) = matrix.nb_rows * matrix.nb_cols)
    /\ []((live.kind # "none" /\ ValidLive) =>
            /\ Injective(live)
            /\ \A p \in Positions(live) : Slot(live, p) < Len(matrix.data))
    /\ [][WritesInBounds =>
            \A p \in Positions(live) :
               IF p = <<last'.row, last'.col>>
                  THEN View_index(live', matrix'.data, p[1], p[2]).val = last'.v
                  ELSE View_index(live', matrix'.data, p[1], p[2])
                          = View_index(live, matrix.data, p[1], p[2])]_vars

\* view_mut(1, 0, 2, 2) of the column-major 3 x 3 matrix filled 1..9: after
\* the write at (1, 1), slot 5, the other three positions still read 2, 5, 3
IndexMappingIsBijectionWitness ==
    /\ ctor = [order |-> "ColumnMajor", nb_rows |-> 3, nb_cols |-> 3]
    /\ origin = Origin("view_mut", 1, 0)
    /\ live.nb_rows = 2 /\ live.nb_cols = 2
    /\ last.op = "index_mut" /\ last.row = 1 /\ last.col = 1 /\ ~last.fault
    /\ nwrites = 1
    /\ View_index(live, matrix.data, 1, 1) = [fault |-> FALSE, id |-> 5, val |-> last.v]
    /\ View_index(live, matrix.data, 0, 0).val = 2
    /\ View_index(live, matrix.data, 0, 1).val = 5
    /\ View_index(live, matrix.data, 1, 0).val = 3

============================================================================
